---------------------------- MODULE Spec2Model ----------------------------
(***************************************************************************)
(* Fee ledger of schoolflow: invoice generation, payment capture (direct   *)
(* and webhook driven), the reconciliation context and receipt issuing.    *)
(*                                                                         *)
(* The database is modelled by its committed tables (sequences of rows,    *)
(* a row's id is its index).  Every request runs in its own session; a     *)
(* request is a process that walks through the commits of its handler, so  *)
(* two requests interleave exactly at the points where the code commits.   *)
(* Amounts are whole currency units.  An optional value (Python None) is   *)
(* the empty sequence, a present value v is <<v>>.                         *)
(***************************************************************************)
EXTENDS Integers, Sequences, FiniteSets, TLC

(***************************************************************************)
(* Bounds of the model.                                                    *)
(***************************************************************************)
MaxCalls == 3
MaxSeqCalls == 4
MaxGenCalls == 2
MaxRcptCalls == 5
MaxCaptureCalls == 3
MaxVerifyCalls == 3
MaxManualCalls == 4
MaxIssuerCalls == 4
MaxPlanCalls == 2
MaxAmountCalls == 3

Procs == {1, 2}

None == <<>>
Some(v) == <<v>>
IsNone(o) == o = <<>>
Val(o) == o[1]

(***************************************************************************)
(* Generic helpers on sequences.                                           *)
(***************************************************************************)
RECURSIVE SumSeq(_)
SumSeq(s) == IF s = <<>> THEN 0 ELSE Head(s) + SumSeq(Tail(s))

RECURSIVE SelectIdx(_, _, _)
\* the indices i of s, ascending, for which keep[i] holds
SelectIdx(s, keep, i) ==
    IF i > Len(s) THEN <<>>
    ELSE IF keep[i] THEN <<i>> \o SelectIdx(s, keep, i + 1)
         ELSE SelectIdx(s, keep, i + 1)



(***************************************************************************)
(* State.  Tables: invoices (fee_invoice), payments (payment), receipts    *)
(* (receipt), users (user).  students, assignments (fee_assignment) and    *)
(* planComponents (fee_plan_component joined with fee_component) are       *)
(* owned by the fee-plan configuration and never written by the ledger.    *)
(* pc, loc: position and locals of each request; res: what the request     *)
(* last returned; calls, uuidCtr: number of requests started and of uuids  *)
(* drawn; seenKeys, issued, returned: the webhook keys, the receipts and    *)
(* the invoices that completed calls have handled or returned so far (they *)
(* are read by no request; the properties are stated with them).           *)
(***************************************************************************)
VARIABLES invoices, payments, receipts, users, students, assignments,
          planComponents, pc, loc, res, calls, uuidCtr, seenKeys, issued,
          returned

vars == <<invoices, payments, receipts, users, students, assignments,
          planComponents, pc, loc, res, calls, uuidCtr, seenKeys, issued,
          returned>>

tables == <<invoices, payments, receipts, users>>
config == <<students, assignments, planComponents>>

(***************************************************************************)
(* Value conversion helpers of fees_service.py.                            *)
(***************************************************************************)
\* _decimal(v): None stays None; Decimal(str(v)) keeps the value of the whole
\* amounts used here
_decimal(v) == IF IsNone(v) THEN None ELSE Some(Val(v))

\* Python's `_decimal(x) or fallback`: None and Decimal 0 are both falsy
DecimalOr(v, fallback) ==
    IF IsNone(v) \/ Val(v) = 0 THEN fallback ELSE Val(v)

(***************************************************************************)
(* invoice_repo.py                                                         *)
(***************************************************************************)
RECURSIVE LStrip(_)
LStrip(s) == IF s # <<>> /\ Head(s) = " " THEN LStrip(Tail(s)) ELSE s

RECURSIVE RStrip(_)
RStrip(s) ==
    IF s # <<>> /\ s[Len(s)] = " " THEN RStrip(SubSeq(s, 1, Len(s) - 1)) ELSE s

\* str(invoice_no).strip()
Strip(s) == RStrip(LStrip(s))

\* first row id matching, 0 when there is none (Query.first() -> None)
FirstIdx(s, keep) ==
    IF \E i \in DOMAIN s : keep[i]
    THEN CHOOSE i \in DOMAIN s : keep[i] /\ \A j \in 1..(i - 1) : ~keep[j]
    ELSE 0

\* a variant that compares the argument as given, without stripping it
GetInvoiceByNoRaw(invs, invoice_no) ==
    FirstIdx(invs, [i \in DOMAIN invs |-> invs[i].invoice_no = invoice_no])

\* a variant that forgets the filter and returns the first invoice there is
GetInvoiceByNoUnfiltered(invs, invoice_no) ==
    IF invs = <<>> THEN 0 ELSE 1

\* get_invoice_by_no: the row whose invoice_no equals the stripped argument
GetInvoiceByNo(invs, invoice_no) ==
    FirstIdx(invs, [i \in DOMAIN invs |-> invs[i].invoice_no = Strip(invoice_no)])

\* the unique index on fee_invoice.invoice_no rejects the insert
InvoiceNoTaken(invs, invoice_no) ==
    \E i \in DOMAIN invs : invs[i].invoice_no = invoice_no

NewInvoice(student_id, invoice_no, amount_due) ==
    [student_id |-> student_id, invoice_no |-> invoice_no,
     amount_due |-> amount_due, status |-> "pending"]

\* a variant that surfaces the unique violation instead of re-fetching
CreateInvoiceNoRefetch(invs, student_id, invoice_no, amount_due) ==
    IF InvoiceNoTaken(invs, Strip(invoice_no))
    THEN [invs |-> invs, id |-> 0, created |-> FALSE]
    ELSE [invs |-> Append(invs, NewInvoice(student_id, Strip(invoice_no), amount_due)),
          id |-> Len(invs) + 1, created |-> TRUE]

\* create_invoice: insert and commit; on IntegrityError roll back and return
\* the existing row (id 0 stands for the re-raised error)
CreateInvoice(invs, student_id, invoice_no, amount_due) ==
    IF InvoiceNoTaken(invs, Strip(invoice_no))
    THEN [invs |-> invs, id |-> GetInvoiceByNo(invs, Strip(invoice_no)),
          created |-> FALSE]
    ELSE [invs |-> Append(invs, NewInvoice(student_id, Strip(invoice_no), amount_due)),
          id |-> Len(invs) + 1, created |-> TRUE]

(***************************************************************************)
(* services/pdf/context_loader.py                                          *)
(***************************************************************************)
\* a variant that counts the first item only
SumPresentFirst(items) ==
    IF items = <<>> \/ IsNone(Head(items).amount) THEN 0
    ELSE Val(Head(items).amount)

RECURSIVE SumPresent(_)
\* adds the amounts that are present
SumPresent(items) ==
    IF items = <<>> THEN 0
    ELSE (IF IsNone(Head(items).amount) THEN 0 ELSE Val(Head(items).amount))
         + SumPresent(Tail(items))

\* _sum_amounts: None when no item carries an amount
_sum_amounts(items) ==
    IF \E i \in DOMAIN items : ~IsNone(items[i].amount)
    THEN Some(SumPresent(items)) ELSE None

\* _all_amounts_none: the list is empty or no item carries an amount
_all_amounts_none(items) ==
    \A i \in DOMAIN items : IsNone(items[i].amount)

\* items built from fee_plan_component rows of one plan
PlanItems(plan_id) ==
    LET idx == SelectIdx(planComponents,
                   [i \in DOMAIN planComponents |->
                        planComponents[i].fee_plan_id = plan_id], 1)
    IN [k \in DOMAIN idx |->
          [id |-> idx[k], description |-> planComponents[idx[k]].name,
           amount |-> Some(planComponents[idx[k]].amount)]]

\* _fallback_single_plan_components
_fallback_single_plan_components ==
    LET distinct_plan_ids ==
            {planComponents[i].fee_plan_id : i \in DOMAIN planComponents}
    IN IF Cardinality(distinct_plan_ids) # 1 THEN <<>>
       ELSE PlanItems(CHOOSE only_plan_id \in distinct_plan_ids : TRUE)

\* step 1 of the resolution: FeeAssignment rows linked to the invoice, else
\* those of the invoice's student; a FeeAssignment carries no amount
AssignmentItems(invoice_id, student_id) ==
    LET linked == SelectIdx(assignments,
                      [i \in DOMAIN assignments |->
                           assignments[i].invoice_id = Some(invoice_id)], 1)
        assigns == IF linked # <<>> THEN linked
                   ELSE SelectIdx(assignments,
                            [i \in DOMAIN assignments |->
                                 assignments[i].student_id = student_id], 1)
    IN [k \in DOMAIN assigns |->
          [id |-> assigns[k], description |-> "", amount |-> None]]

\* a variant without the final normalisation
ResolveItemsRaw(invoice_id, student_id) ==
    LET items1 == AssignmentItems(invoice_id, student_id)
        student_found == student_id \in students
        assignment == IF student_found
                      THEN FirstIdx(assignments,
                               [i \in DOMAIN assignments |->
                                    assignments[i].student_id = student_id])
                      ELSE 0
        items2 == IF (items1 = <<>> \/ _all_amounts_none(items1)) /\ assignment # 0
                  THEN PlanItems(assignments[assignment].fee_plan_id)
                  ELSE items1
    IN IF items2 = <<>> THEN _fallback_single_plan_components ELSE items2

\* steps 1-3 and the normalisation: the line items of an invoice
ResolveItems(invoice_id, student_id) ==
    LET items1 == AssignmentItems(invoice_id, student_id)
        student_found == student_id \in students
        assignment == IF student_found
                      THEN FirstIdx(assignments,
                               [i \in DOMAIN assignments |->
                                    assignments[i].student_id = student_id])
                      ELSE 0
        items2 == IF (items1 = <<>> \/ _all_amounts_none(items1)) /\ assignment # 0
                  THEN PlanItems(assignments[assignment].fee_plan_id)
                  ELSE items1
        items3 == IF items2 = <<>> THEN _fallback_single_plan_components
                  ELSE items2
    IN IF items3 # <<>> /\ _all_amounts_none(items3) THEN <<>> ELSE items3

\* a variant that reads the oldest payment of the invoice only
PaymentAmountsFirst(pays, invoice_id) ==
    LET idx == SelectIdx(pays,
                   [i \in DOMAIN pays |-> pays[i].fee_invoice_id = invoice_id], 1)
    IN IF idx = <<>> THEN <<>> ELSE <<pays[idx[1]].amount>>

\* amounts of all Payment rows of an invoice, whatever their status
PaymentAmounts(pays, invoice_id) ==
    LET idx == SelectIdx(pays,
                   [i \in DOMAIN pays |-> pays[i].fee_invoice_id = invoice_id], 1)
    IN [k \in DOMAIN idx |-> pays[idx[k]].amount]

\* a variant that clamps the balance at zero
BalanceClamped(total_due, paid_amount) ==
    IF IsNone(total_due) \/ IsNone(paid_amount) THEN None
    ELSE IF Val(total_due) - Val(paid_amount) < 0 THEN Some(0)
         ELSE Some(Val(total_due) - Val(paid_amount))

\* balance of load_invoice_context: None unless both operands are present
Balance(total_due, paid_amount) ==
    IF IsNone(total_due) \/ IsNone(paid_amount) THEN None
    ELSE Some(Val(total_due) - Val(paid_amount))

\* a variant whose total_due treats an amount_due of 0 as absent
load_invoice_context_falsy(invs, pays, invoice_id) ==
    LET invoice == invs[invoice_id]
        amount == Some(invoice.amount_due)
        items == ResolveItems(invoice_id, invoice.student_id)
        amts == PaymentAmounts(pays, invoice_id)
        paid_amount == IF amts = <<>> THEN None ELSE Some(SumSeq(amts))
        items_total == _sum_amounts(items)
        total_due == IF Val(amount) # 0 THEN amount ELSE items_total
    IN [invoice_id |-> invoice_id, amount_due |-> amount, items |-> items,
        items_total |-> items_total, total_due |-> total_due,
        paid_amount |-> paid_amount,
        balance |-> Balance(total_due, paid_amount)]

\* load_invoice_context(invoice_id, db) for an existing invoice
load_invoice_context(invs, pays, invoice_id) ==
    LET invoice == invs[invoice_id]
        amount == Some(invoice.amount_due)
        items == ResolveItems(invoice_id, invoice.student_id)
        amts == PaymentAmounts(pays, invoice_id)
        paid_amount == IF amts = <<>> THEN None ELSE Some(SumSeq(amts))
        items_total == _sum_amounts(items)
        total_due == IF ~IsNone(amount) THEN amount ELSE items_total
    IN [invoice_id |-> invoice_id, amount_due |-> amount, items |-> items,
        items_total |-> items_total, total_due |-> total_due,
        paid_amount |-> paid_amount,
        balance |-> Balance(total_due, paid_amount)]

\* Python's `a or b or c` over optional numbers: the first truthy operand,
\* else the last one
OrChain3(a, b, c) ==
    IF ~IsNone(a) /\ Val(a) # 0 THEN a
    ELSE IF ~IsNone(b) /\ Val(b) # 0 THEN b ELSE c

\* load_receipt_context(receipt_id, db) for an existing receipt whose payment
\* and invoice exist: paid_amount is the receipt's own payment only
load_receipt_context(invs, pays, recs, receipt_id) ==
    LET receipt == recs[receipt_id]
        payment == pays[receipt.payment_id]
        invoice == invs[payment.fee_invoice_id]
        amount == Some(payment.amount)
        items == ResolveItems(payment.fee_invoice_id, invoice.student_id)
        paid_amount == Some(payment.amount)
        items_total == _sum_amounts(items)
        invoice_amount == Some(invoice.amount_due)
        total_due == OrChain3(invoice_amount, items_total, amount)
    IN [receipt_id |-> receipt_id, amount |-> amount, items |-> items,
        items_total |-> items_total, total_due |-> total_due,
        paid_amount |-> paid_amount,
        balance |-> Balance(total_due, paid_amount)]

(***************************************************************************)
(* repositories/fee_repo.py and the constraints of the payment table       *)
(***************************************************************************)
\* a variant without the unique index on idempotency_key
PaymentConflictTxnOnly(pays, provider, provider_txn_id, idempotency_key) ==
    \E i \in DOMAIN pays :
        pays[i].provider = provider /\ pays[i].provider_txn_id = provider_txn_id

\* uq_payment_idempotency_key (unique, NULLs allowed) and u_provider_txn
PaymentConflict(pays, provider, provider_txn_id, idempotency_key) ==
    \E i \in DOMAIN pays :
        \/ (~IsNone(idempotency_key) /\ pays[i].idempotency_key = idempotency_key)
        \/ (pays[i].provider = provider /\ pays[i].provider_txn_id = provider_txn_id)

\* create_payment: the row appended by a successful insert and commit
create_payment(pays, fee_invoice_id, provider, provider_txn_id, amount, status, idempotency_key) ==
    Append(pays, [fee_invoice_id |-> fee_invoice_id, provider |-> provider,
                  provider_txn_id |-> provider_txn_id, amount |-> amount,
                  status |-> status, idempotency_key |-> idempotency_key])

\* mark_invoice_paid
mark_invoice_paid(invs, invoice_id) ==
    [invs EXCEPT ![invoice_id].status = "paid"]

\* a variant that looks at the newest payment of the invoice only
PaidTotalLastOnly(pays, invoice_id) ==
    LET amts == PaymentAmounts(pays, invoice_id)
    IN IF amts = <<>> THEN 0 ELSE amts[Len(amts)]

\* _paid_total_for_invoice: sum over all Payment rows of the invoice
_paid_total_for_invoice(pays, invoice_id) ==
    SumSeq(PaymentAmounts(pays, invoice_id))

\* create_receipt of fee_repo: created_by is left NULL
create_receipt(recs, payment_id, receipt_no, pdf_path) ==
    Append(recs, [payment_id |-> payment_id, receipt_no |-> receipt_no,
                  pdf_path |-> pdf_path, created_by |-> None])

(***************************************************************************)
(* Requests.  L0 and R0 are the locals and the result of a request that    *)
(* has not run.                                                            *)
(***************************************************************************)
NoToken == <<"", 0>>

L0 == [op |-> "none", invoice_no |-> <<>>, student_id |-> 0, amount |-> None,
       payment |-> None, inv |-> 0, raced |-> FALSE, existed |-> FALSE,
       due |-> 0, provider_txn_id |-> NoToken, idempotency_key |-> NoToken,
       paid_amount |-> 0, payment_id |-> 0, second |-> FALSE,
       receipt_no |-> NoToken, rid |-> 0, created_by |-> 0, new_user |-> FALSE,
       ctx |-> None, prior |-> {}, signed |-> FALSE,
       given |-> None, raw_id |-> None, raw_amount |-> None]

R0 == [op |-> "none", out |-> "none", id |-> 0, invoice_no |-> <<>>,
       path |-> "none", key |-> NoToken, second |-> FALSE, ctx |-> None,
       payment_id |-> 0, prior |-> {}, pdf_path |-> <<>>, amount |-> None,
       signed |-> FALSE, given |-> None, raw_id |-> None]

\* what a completed generate_invoice_for_student call returned: the invoice
\* id and for which (stripped) invoice_no
Returned(invoice_no, id) == [invoice_no |-> Strip(invoice_no), id |-> id]

\* uuid.uuid4(): a value never drawn before
Uuid(prefix) == <<prefix, uuidCtr + 1>>

\* the totals of a context, as handed to a renderer
Totals(ctx) == Some([total_due |-> ctx.total_due, paid_amount |-> ctx.paid_amount,
                     balance |-> ctx.balance, items_total |-> ctx.items_total])

Finish(p, r) ==
    /\ pc' = [pc EXCEPT ![p] = "idle"]
    /\ loc' = [loc EXCEPT ![p] = L0]
    /\ res' = [res EXCEPT ![p] = r]

Goto(p, label, l) ==
    /\ pc' = [pc EXCEPT ![p] = label]
    /\ loc' = [loc EXCEPT ![p] = l]
    /\ res' = [res EXCEPT ![p] = R0]

(***************************************************************************)
(* FeesService.generate_invoice_for_student                                *)
(***************************************************************************)
\* lines 146-153: look the invoice_no up; an existing invoice is rendered
\* again and returned
GenStart(p, Inputs, limit) ==
    /\ pc[p] = "idle"
    /\ calls < limit
    /\ \E in \in Inputs, render_ok \in BOOLEAN :
        LET existing == GetInvoiceByNo(invoices, in.invoice_no)
            existed == InvoiceNoTaken(invoices, Strip(in.invoice_no))
        IN IF existing # 0
           THEN /\ Finish(p, [R0 EXCEPT !.op = "generate",
                                  !.out = IF render_ok THEN "ok" ELSE "render_failed",
                                  !.id = existing, !.invoice_no = in.invoice_no,
                                  !.path = "existing", !.amount = in.amount,
                                  !.second = Returned(in.invoice_no, existing) \in returned,
                                  !.ctx = Totals(load_invoice_context(invoices, payments, existing))])
                /\ returned' = IF render_ok
                               THEN returned \cup {Returned(in.invoice_no, existing)}
                               ELSE returned
           ELSE /\ render_ok
                /\ Goto(p, "G_insert",
                        [L0 EXCEPT !.op = "generate", !.invoice_no = in.invoice_no,
                            !.student_id = in.student_id, !.amount = in.amount,
                            !.payment = in.payment, !.existed = existed])
                /\ UNCHANGED returned
    /\ calls' = calls + 1
    /\ UNCHANGED <<tables, config, uuidCtr, seenKeys, issued>>

\* lines 155-167: create_invoice with the placeholder amount 0
GenInsert(p) ==
    /\ pc[p] = "G_insert"
    /\ LET l == loc[p]
           c == CreateInvoice(invoices, l.student_id, l.invoice_no, 0)
       IN /\ invoices' = c.invs
          /\ IF c.id = 0
             THEN Finish(p, [R0 EXCEPT !.op = "generate", !.out = "conflict",
                                !.invoice_no = l.invoice_no, !.path = "raced"])
             ELSE /\ pc' = [pc EXCEPT ![p] = "G_finalize"]
                  /\ loc' = [loc EXCEPT ![p].inv = c.id, ![p].raced = ~c.created]
                  /\ UNCHANGED res
    /\ UNCHANGED <<payments, receipts, users, config, calls, uuidCtr, seenKeys, issued, returned>>

\* a variant that goes on with the placeholder amount
GenFinalizeSkips(p) ==
    /\ pc[p] = "G_finalize"
    /\ pc' = [pc EXCEPT ![p] = IF ~IsNone(loc[p].payment) THEN "G_pay" ELSE "G_render"]
    /\ UNCHANGED <<tables, config, loc, res, calls, uuidCtr, seenKeys, issued, returned>>

\* lines 169-181: amount_due = items_total (or 0) + extra amount (or 0)
GenFinalize(p) ==
    /\ pc[p] = "G_finalize"
    /\ LET l == loc[p]
           ctx_for_total == load_invoice_context(invoices, payments, l.inv)
           base_total == IF ~IsNone(ctx_for_total.items_total)
                         THEN Val(_decimal(ctx_for_total.items_total)) ELSE 0
           extra == IF ~IsNone(l.amount) THEN Val(_decimal(l.amount)) ELSE 0
           final_due == base_total + extra
       IN /\ invoices' = [invoices EXCEPT ![l.inv].amount_due = final_due]
          /\ pc' = [pc EXCEPT ![p] = IF ~IsNone(l.payment) THEN "G_pay" ELSE "G_render"]
          /\ loc' = [loc EXCEPT ![p].due = final_due]
    /\ UNCHANGED <<payments, receipts, users, config, res, calls, uuidCtr, seenKeys, issued, returned>>

\* lines 204-227: record the immediate payment; a unique violation is
\* swallowed (rollback, recorded_payment = None)
GenPay(p) ==
    /\ pc[p] = "G_pay"
    /\ LET l == loc[p]
           pay == Val(l.payment)
           provider_txn_id == IF ~IsNone(pay.provider_txn_id)
                              THEN Val(pay.provider_txn_id) ELSE Uuid("manual")
           paid_amount == DecimalOr(_decimal(pay.amount), l.due)
           idempotency_key == IF ~IsNone(pay.idempotency_key)
                              THEN Val(pay.idempotency_key) ELSE provider_txn_id
       IN /\ uuidCtr' = IF IsNone(pay.provider_txn_id) THEN uuidCtr + 1 ELSE uuidCtr
          /\ IF PaymentConflict(payments, pay.provider, provider_txn_id,
                                Some(idempotency_key))
             THEN /\ payments' = payments
                  /\ pc' = [pc EXCEPT ![p] = "G_render"]
                  /\ loc' = loc
             ELSE /\ payments' = create_payment(payments, l.inv, pay.provider,
                                      provider_txn_id, paid_amount, pay.status,
                                      Some(idempotency_key))
                  /\ pc' = [pc EXCEPT ![p] = "G_mark"]
                  /\ loc' = [loc EXCEPT ![p].paid_amount = paid_amount,
                                         ![p].payment_id = Len(payments) + 1]
    /\ UNCHANGED <<invoices, receipts, users, config, res, calls, seenKeys, issued, returned>>

\* line 233: the condition under which the invoice is marked paid
GenPaidThreshold(total_paid, amount_due, paid_amount) ==
    total_paid >= amount_due \/ total_paid >= paid_amount

\* lines 229-237: evaluate the paid threshold after a recorded payment
GenMark(p) ==
    /\ pc[p] = "G_mark"
    /\ LET l == loc[p]
           total_paid == _paid_total_for_invoice(payments, l.inv)
       IN invoices' = IF GenPaidThreshold(total_paid, invoices[l.inv].amount_due,
                                          l.paid_amount)
                      THEN mark_invoice_paid(invoices, l.inv) ELSE invoices
    /\ pc' = [pc EXCEPT ![p] = "G_render"]
    /\ UNCHANGED <<payments, receipts, users, config, loc, res, calls, uuidCtr,
                   seenKeys, issued, returned>>

\* lines 239-243: render with a fresh context and return the invoice
GenRender(p) ==
    /\ pc[p] = "G_render"
    /\ \E render_ok \in BOOLEAN :
        LET l == loc[p]
            path == IF l.raced THEN "raced" ELSE "created"
        IN /\ Finish(p, [R0 EXCEPT !.op = "generate",
                            !.out = IF render_ok THEN "ok" ELSE "render_failed",
                            !.id = l.inv, !.invoice_no = l.invoice_no,
                            !.path = path, !.amount = l.amount,
                            !.second = Returned(l.invoice_no, l.inv) \in returned,
                            !.ctx = Totals(load_invoice_context(invoices, payments, l.inv))])
           /\ returned' = IF render_ok
                          THEN returned \cup {Returned(l.invoice_no, l.inv)}
                          ELSE returned
    /\ UNCHANGED <<tables, config, calls, uuidCtr, seenKeys, issued>>

(***************************************************************************)
(* FeesService.handle_webhook_mark_paid                                    *)
(***************************************************************************)
\* the receipts directory joined with "<receipt_no>.pdf"
ReceiptPath(receipt_no) == <<"receipts", receipt_no>>

\* a variant that books a payload without a known invoice on invoice 1
WebhookInvoiceDefault(invs, raw_id) ==
    IF ~IsNone(raw_id) /\ Val(raw_id) \in DOMAIN invs THEN Val(raw_id)
    ELSE IF invs # <<>> THEN 1 ELSE 0

\* lines 260-268: the id of the invoice the payload names, 0 when the
\* payload has no invoice_id or no such invoice exists (ValueError)
WebhookInvoice(invs, raw_id) ==
    IF ~IsNone(raw_id) /\ Val(raw_id) \in DOMAIN invs THEN Val(raw_id) ELSE 0

\* a gateway that accepts every signature
verify_webhook_any(data) == TRUE

\* PaymentGatewayInterface.verify_webhook: the gateway's verdict on the
\* payload and its signature (the fake adapter accepts "fake-signature")
verify_webhook(data) == data.signature_ok

\* lines 255-283: verification, invoice lookup, idempotency lookup
WebhookStart(p, Inputs, limit) ==
    /\ pc[p] = "idle"
    /\ calls < limit
    /\ \E data \in Inputs :
        LET W == [R0 EXCEPT !.op = "webhook", !.signed = data.signature_ok,
                            !.raw_id = data.invoice_id]
            invoice_id == WebhookInvoice(invoices, data.invoice_id)
            found == invoice_id # 0
            provider_txn_id == IF ~IsNone(data.provider_txn_id)
                               THEN Val(data.provider_txn_id) ELSE Uuid("auto")
            idempotency_key == IF ~IsNone(data.idempotency_key)
                               THEN Val(data.idempotency_key) ELSE provider_txn_id
            second == idempotency_key \in seenKeys
            existing_payment ==
                \E i \in DOMAIN payments :
                    payments[i].idempotency_key = Some(idempotency_key)
        IN IF ~verify_webhook(data)
           THEN /\ Finish(p, [W EXCEPT !.out = "verification_failed"])
                /\ UNCHANGED <<uuidCtr, seenKeys>>
           ELSE IF ~found
           THEN /\ Finish(p, [W EXCEPT !.out = "invoice_not_found"])
                /\ UNCHANGED <<uuidCtr, seenKeys>>
           ELSE /\ uuidCtr' = IF IsNone(data.provider_txn_id)
                              THEN uuidCtr + 1 ELSE uuidCtr
                /\ IF existing_payment
                   THEN /\ Finish(p, [W EXCEPT !.out = "ignored",
                                          !.id = invoice_id,
                                          !.key = idempotency_key,
                                          !.second = second])
                        /\ seenKeys' = seenKeys \cup {idempotency_key}
                   ELSE /\ Goto(p, "W_insert",
                                [L0 EXCEPT !.op = "webhook",
                                    !.signed = data.signature_ok,
                                    !.raw_id = data.invoice_id,
                                    !.raw_amount = data.amount,
                                    !.inv = invoice_id,
                                    !.provider_txn_id = provider_txn_id,
                                    !.idempotency_key = idempotency_key,
                                    !.paid_amount =
                                        DecimalOr(_decimal(data.amount),
                                            invoices[invoice_id].amount_due),
                                    !.second = second])
                        /\ UNCHANGED seenKeys
    /\ calls' = calls + 1
    /\ UNCHANGED <<tables, config, issued, returned>>

\* a variant that marks the invoice paid although the insert was rejected
WebhookInsertMarksAnyway(p) ==
    /\ pc[p] = "W_insert"
    /\ LET l == loc[p]
       IN IF PaymentConflict(payments, "fake", l.provider_txn_id,
                             Some(l.idempotency_key))
          THEN /\ Finish(p, [R0 EXCEPT !.op = "webhook", !.out = "ignored",
                                 !.id = l.inv, !.key = l.idempotency_key,
                                 !.second = l.second, !.path = "raced",
                                 !.signed = l.signed, !.raw_id = l.raw_id])
               /\ seenKeys' = seenKeys \cup {l.idempotency_key}
               /\ invoices' = mark_invoice_paid(invoices, l.inv)
               /\ UNCHANGED payments
          ELSE /\ payments' = create_payment(payments, l.inv, "fake",
                                   l.provider_txn_id, l.paid_amount, "captured",
                                   Some(l.idempotency_key))
               /\ pc' = [pc EXCEPT ![p] = "W_mark"]
               /\ loc' = [loc EXCEPT ![p].payment_id = Len(payments) + 1]
               /\ UNCHANGED <<res, seenKeys, invoices>>
    /\ UNCHANGED <<receipts, users, config, calls, uuidCtr, issued, returned>>

\* lines 285-297: create_payment; an IntegrityError is reported as a replay
WebhookInsert(p) ==
    /\ pc[p] = "W_insert"
    /\ LET l == loc[p]
       IN IF PaymentConflict(payments, "fake", l.provider_txn_id,
                             Some(l.idempotency_key))
          THEN /\ Finish(p, [R0 EXCEPT !.op = "webhook", !.out = "ignored",
                                 !.id = l.inv, !.key = l.idempotency_key,
                                 !.second = l.second, !.path = "raced",
                                 !.signed = l.signed, !.raw_id = l.raw_id])
               /\ seenKeys' = seenKeys \cup {l.idempotency_key}
               /\ UNCHANGED payments
          ELSE /\ payments' = create_payment(payments, l.inv, "fake",
                                   l.provider_txn_id, l.paid_amount, "captured",
                                   Some(l.idempotency_key))
               /\ pc' = [pc EXCEPT ![p] = "W_mark"]
               /\ loc' = [loc EXCEPT ![p].payment_id = Len(payments) + 1]
               /\ UNCHANGED <<res, seenKeys>>
    /\ UNCHANGED <<invoices, receipts, users, config, calls, uuidCtr, issued, returned>>

\* line 301: the condition under which the webhook marks the invoice paid
WebhookPaidThreshold(total_paid, amount_due) == total_paid >= amount_due

\* lines 299-302: evaluate the paid threshold
WebhookMark(p) ==
    /\ pc[p] = "W_mark"
    /\ LET l == loc[p]
           total_paid == _paid_total_for_invoice(payments, l.inv)
       IN invoices' = IF WebhookPaidThreshold(total_paid, invoices[l.inv].amount_due)
                      THEN mark_invoice_paid(invoices, l.inv) ELSE invoices
    /\ pc' = [pc EXCEPT ![p] = "W_receipt"]
    /\ UNCHANGED <<payments, receipts, users, config, loc, res, calls, uuidCtr,
                   seenKeys, issued, returned>>

\* lines 304-331: create_receipt (committed), then render and notify
WebhookReceipt(p) ==
    /\ pc[p] = "W_receipt"
    /\ \E render_ok \in BOOLEAN :
        LET l == loc[p]
            receipt_no == Uuid("REC")
            recs == create_receipt(receipts, l.payment_id, receipt_no,
                                   ReceiptPath(receipt_no))
            ctx == load_receipt_context(invoices, payments, recs, Len(recs))
        IN /\ receipts' = recs
           /\ Finish(p, [R0 EXCEPT !.op = "webhook",
                             !.out = IF render_ok THEN "ok" ELSE "render_failed",
                             !.id = l.inv, !.key = l.idempotency_key,
                             !.second = l.second, !.ctx = Totals(ctx),
                             !.signed = l.signed, !.raw_id = l.raw_id])
           /\ seenKeys' = seenKeys \cup {l.idempotency_key}
    /\ uuidCtr' = uuidCtr + 1
    /\ UNCHANGED <<invoices, payments, users, config, calls, issued, returned>>

(***************************************************************************)
(* services/fee/receipt_service.py                                         *)
(***************************************************************************)
SysEmail == "system@example.com"

\* a variant that checks the payment's status before the invoice's student
validate_payment_status_first(invs, pays, payment_id) ==
    IF payment_id \notin DOMAIN pays THEN "payment_not_found"
    ELSE IF pays[payment_id].fee_invoice_id \notin DOMAIN invs
    THEN "invoice_not_found"
    ELSE IF pays[payment_id].status \notin {"paid", "posted", "captured"}
    THEN "invalid_state"
    ELSE IF invs[pays[payment_id].fee_invoice_id].student_id \notin students
    THEN "student_not_found"
    ELSE "ok"

\* validate_payment_for_receipt as a session sees it: "ok" or the first
\* failed check over the invoice and payment rows visible to the session
validate_payment(invs, pays, payment_id) ==
    IF payment_id \notin DOMAIN pays THEN "payment_not_found"
    ELSE IF pays[payment_id].fee_invoice_id \notin DOMAIN invs
    THEN "invoice_not_found"
    ELSE IF invs[pays[payment_id].fee_invoice_id].student_id \notin students
    THEN "student_not_found"
    ELSE IF pays[payment_id].status \notin {"paid", "posted", "captured"}
    THEN "invalid_state"
    ELSE "ok"

\* validate_payment_for_receipt: "ok" or the first failed check
validate_payment_for_receipt(payment_id) ==
    validate_payment(invoices, payments, payment_id)

\* _resolve_created_by: the actor id, whether the call is forbidden, and
\* whether a system admin was added to the session
_resolve_created_by(created_by) ==
    LET given == ~IsNone(created_by) /\ Val(created_by) \in DOMAIN users
        fallback_user == FirstIdx(users, [i \in DOMAIN users |->
                                             users[i].role \in {"admin", "clerk"}])
        existing == FirstIdx(users, [i \in DOMAIN users |->
                                        users[i].email = SysEmail])
    IN IF given /\ users[Val(created_by)].role \in {"admin", "clerk"}
       THEN [id |-> Val(created_by), forbidden |-> FALSE, new_user |-> FALSE]
       ELSE IF given
       THEN [id |-> 0, forbidden |-> TRUE, new_user |-> FALSE]
       ELSE IF fallback_user # 0
       THEN [id |-> fallback_user, forbidden |-> FALSE, new_user |-> FALSE]
       ELSE IF existing # 0
       THEN [id |-> existing, forbidden |-> FALSE, new_user |-> FALSE]
       ELSE [id |-> Len(users) + 1, forbidden |-> FALSE, new_user |-> TRUE]

\* _compute_pdf_path: the receipts directory joined with "<receipt_no>.pdf"
_compute_pdf_path(receipt_no) == <<"receipts", receipt_no>>

\* the unique index on receipt.receipt_no rejects the insert
ReceiptNoTaken(recs, receipt_no) ==
    \E i \in DOMAIN recs : recs[i].receipt_no = receipt_no

\* a variant that never finds the stored receipt
ExistingReceiptNone(recs, payment_id) == 0

\* line 309-313: the receipt already stored for the payment, 0 when none
ExistingReceipt(recs, payment_id) ==
    FirstIdx(recs, [i \in DOMAIN recs |-> recs[i].payment_id = payment_id])

\* lines 282-302, 349-353: the totals of the receipt's render context, taken
\* from the invoice context (float(x or 0.0) for the absent and the zero)
ReceiptTotals(inv_ctx, invoice) ==
    LET raw_total_due == IF IsNone(inv_ctx.total_due) THEN Some(invoice.amount_due)
                         ELSE inv_ctx.total_due
        total_due == DecimalOr(raw_total_due, 0)
        paid_amount == DecimalOr(inv_ctx.paid_amount, 0)
        balance == IF ~IsNone(inv_ctx.balance) THEN Val(inv_ctx.balance)
                   ELSE total_due - paid_amount
    IN Some([total_due |-> Some(total_due), paid_amount |-> Some(paid_amount),
             balance |-> Some(balance),
             items_total |-> Some(DecimalOr(inv_ctx.items_total, 0))])

\* lines 255-329: validation, invoice context, actor, existing receipt or a
\* new row flushed into the open transaction
ReceiptStart(p, Inputs, limit) ==
    /\ pc[p] = "idle"
    /\ calls < limit
    /\ \E in \in Inputs :
        LET RR == [R0 EXCEPT !.op = "receipt", !.payment_id = in.payment_id,
                             !.given = in.created_by]
            v == validate_payment_for_receipt(in.payment_id)
            payment == payments[in.payment_id]
            inv_ctx == load_invoice_context(invoices, payments, payment.fee_invoice_id)
            receipt_no == IF ~IsNone(in.receipt_no) THEN Val(in.receipt_no)
                          ELSE Uuid("REC")
            actor == _resolve_created_by(in.created_by)
            existing == ExistingReceipt(receipts, in.payment_id)
        IN IF v # "ok"
           THEN Finish(p, [RR EXCEPT !.out = v]) /\ UNCHANGED uuidCtr
           ELSE /\ uuidCtr' = IF IsNone(in.receipt_no) THEN uuidCtr + 1 ELSE uuidCtr
                /\ IF actor.forbidden
                   THEN Finish(p, [RR EXCEPT !.out = "forbidden"])
                   ELSE IF existing = 0 /\ ReceiptNoTaken(receipts, receipt_no)
                   THEN Finish(p, [RR EXCEPT !.out = "conflict"])
                   ELSE Goto(p, "R_render",
                            [L0 EXCEPT !.op = "receipt",
                                !.payment_id = in.payment_id,
                                !.inv = payment.fee_invoice_id,
                                !.receipt_no = IF existing # 0
                                               THEN receipts[existing].receipt_no
                                               ELSE receipt_no,
                                !.rid = existing,
                                !.created_by = actor.id,
                                !.given = in.created_by,
                                !.new_user = actor.new_user,
                                !.ctx = ReceiptTotals(inv_ctx,
                                            invoices[payment.fee_invoice_id]),
                                !.paid_amount = payment.amount,
                                !.prior = {r \in issued : r.payment_id = in.payment_id}])
    /\ calls' = calls + 1
    /\ UNCHANGED <<tables, config, seenKeys, issued, returned>>

\* a variant whose failed render leaves the flushed row behind
ReceiptRenderKeepsRow(p) ==
    /\ pc[p] = "R_render"
    /\ \E render_ok \in BOOLEAN :
        LET l == loc[p]
            RR == [R0 EXCEPT !.op = "receipt", !.payment_id = l.payment_id,
                             !.prior = l.prior, !.ctx = l.ctx,
                             !.amount = Some(l.paid_amount),
                             !.given = l.given]
            pdf_path == _compute_pdf_path(l.receipt_no)
            rid == IF l.rid # 0 THEN l.rid ELSE Len(receipts) + 1
            stored == IF l.rid # 0
                      THEN [receipts EXCEPT ![l.rid].pdf_path = pdf_path]
                      ELSE Append(receipts,
                               [payment_id |-> l.payment_id,
                                receipt_no |-> l.receipt_no,
                                pdf_path |-> pdf_path,
                                created_by |-> Some(l.created_by)])
        IN /\ receipts' = stored
           /\ IF render_ok
              THEN /\ issued' = issued \cup {[payment_id |-> l.payment_id, id |-> rid,
                                              pdf_path |-> pdf_path]}
                   /\ Finish(p, [RR EXCEPT !.out = "ok", !.id = rid,
                                           !.pdf_path = pdf_path])
              ELSE /\ issued' = issued
                   /\ Finish(p, [RR EXCEPT !.out = "render_failed"])
    /\ UNCHANGED <<invoices, payments, users, config, calls, uuidCtr, seenKeys, returned>>

\* a variant that settles the invoice when it stores the receipt
ReceiptRenderSettles(p) ==
    /\ pc[p] = "R_render"
    /\ \E render_ok \in BOOLEAN :
        LET l == loc[p]
            RR == [R0 EXCEPT !.op = "receipt", !.payment_id = l.payment_id,
                             !.prior = l.prior, !.ctx = l.ctx,
                             !.amount = Some(l.paid_amount),
                             !.given = l.given]
            pdf_path == _compute_pdf_path(l.receipt_no)
            commit_fails ==
                \/ (l.rid = 0 /\ ReceiptNoTaken(receipts, l.receipt_no))
                \/ (l.new_user /\ \E i \in DOMAIN users : users[i].email = SysEmail)
            rid == IF l.rid # 0 THEN l.rid ELSE Len(receipts) + 1
        IN IF ~render_ok \/ commit_fails
           THEN /\ Finish(p, [RR EXCEPT !.out = IF ~render_ok THEN "render_failed"
                                                ELSE "db_error"])
                /\ UNCHANGED <<receipts, users, issued, invoices>>
           ELSE /\ receipts' =
                      IF l.rid # 0
                      THEN [receipts EXCEPT ![l.rid].pdf_path = pdf_path]
                      ELSE Append(receipts,
                               [payment_id |-> l.payment_id,
                                receipt_no |-> l.receipt_no,
                                pdf_path |-> pdf_path,
                                created_by |-> Some(l.created_by)])
                /\ users' = IF l.new_user
                            THEN Append(users, [email |-> SysEmail, role |-> "admin"])
                            ELSE users
                /\ issued' = issued \cup {[payment_id |-> l.payment_id, id |-> rid,
                                            pdf_path |-> pdf_path]}
                /\ invoices' = [invoices EXCEPT ![l.inv].status = "settled"]
                /\ Finish(p, [RR EXCEPT !.out = "ok", !.id = rid,
                                        !.pdf_path = pdf_path])
    /\ UNCHANGED <<payments, config, calls, uuidCtr, seenKeys, returned>>

\* lines 360-397: render, then store pdf_path and commit; a failed render
\* rolls the transaction back
ReceiptRender(p) ==
    /\ pc[p] = "R_render"
    /\ \E render_ok \in BOOLEAN :
        LET l == loc[p]
            RR == [R0 EXCEPT !.op = "receipt", !.payment_id = l.payment_id,
                             !.prior = l.prior, !.ctx = l.ctx,
                             !.amount = Some(l.paid_amount),
                             !.given = l.given]
            pdf_path == _compute_pdf_path(l.receipt_no)
            commit_fails ==
                \/ (l.rid = 0 /\ ReceiptNoTaken(receipts, l.receipt_no))
                \/ (l.new_user /\ \E i \in DOMAIN users : users[i].email = SysEmail)
            rid == IF l.rid # 0 THEN l.rid ELSE Len(receipts) + 1
        IN IF ~render_ok
           THEN /\ Finish(p, [RR EXCEPT !.out = "render_failed"])
                /\ UNCHANGED <<receipts, users, issued>>
           ELSE IF commit_fails
           THEN /\ Finish(p, [RR EXCEPT !.out = "db_error"])
                /\ UNCHANGED <<receipts, users, issued>>
           ELSE /\ receipts' =
                      IF l.rid # 0
                      THEN [receipts EXCEPT ![l.rid].pdf_path = pdf_path]
                      ELSE Append(receipts,
                               [payment_id |-> l.payment_id,
                                receipt_no |-> l.receipt_no,
                                pdf_path |-> pdf_path,
                                created_by |-> Some(l.created_by)])
                /\ users' = IF l.new_user
                            THEN Append(users, [email |-> SysEmail, role |-> "admin"])
                            ELSE users
                /\ issued' = issued \cup {[payment_id |-> l.payment_id, id |-> rid,
                                            pdf_path |-> pdf_path]}
                /\ Finish(p, [RR EXCEPT !.out = "ok", !.id = rid,
                                        !.pdf_path = pdf_path])
    /\ UNCHANGED <<invoices, payments, config, calls, uuidCtr, seenKeys, returned>>

(***************************************************************************)
(* api/v1/routers/fees/payments.py: create_manual_payment.  The handler    *)
(* works in one session and commits once, so it is one step.               *)
(***************************************************************************)
\* lines 81-94: the role check of the endpoint
ManualForbidden(current_user, invoice) ==
    IF current_user.role \in {"student", "parent"}
    THEN current_user.student_id # Some(invoice.student_id)
    ELSE current_user.role \notin {"admin", "clerk", "accountant"}

\* lines 73-156: invoice lookup, role check, amount guard, the Payment row
\* flushed with status "success", create_receipt_and_render in the same
\* session; any exception of the latter rolls the session back
create_manual_payment(p, Inputs, limit) ==
    /\ pc[p] = "idle"
    /\ calls < limit
    /\ \E in \in Inputs, render_ok \in BOOLEAN :
        LET M == [R0 EXCEPT !.op = "manual", !.amount = Some(in.amount)]
            current_user == users[in.user]
            payment_id == Len(payments) + 1
            pays == create_payment(payments, in.invoice_id, "offline",
                                   Uuid("MANUAL"), in.amount, "success", None)
            v == validate_payment(invoices, pays, payment_id)
            actor == _resolve_created_by(Some(in.user))
            receipt_no == Uuid("REC")
            pdf_path == _compute_pdf_path(receipt_no)
            failure == IF v # "ok" THEN v
                       ELSE IF actor.forbidden THEN "forbidden"
                       ELSE IF ~render_ok THEN "render_failed"
                       ELSE "none"
        IN IF in.invoice_id \notin DOMAIN invoices
           THEN /\ render_ok
                /\ Finish(p, [M EXCEPT !.out = "not_found"])
                /\ UNCHANGED <<payments, receipts, issued, uuidCtr>>
           ELSE IF ManualForbidden(current_user, invoices[in.invoice_id])
           THEN /\ render_ok
                /\ Finish(p, [M EXCEPT !.out = "forbidden", !.id = in.invoice_id])
                /\ UNCHANGED <<payments, receipts, issued, uuidCtr>>
           ELSE IF in.amount <= 0
           THEN /\ render_ok
                /\ Finish(p, [M EXCEPT !.out = "invalid_amount", !.id = in.invoice_id])
                /\ UNCHANGED <<payments, receipts, issued, uuidCtr>>
           ELSE /\ uuidCtr' = uuidCtr + 1
                /\ (v # "ok" \/ actor.forbidden) => render_ok
                /\ IF failure # "none"
                   THEN /\ Finish(p, [M EXCEPT !.out = "receipt_failed",
                                         !.id = in.invoice_id, !.path = failure])
                        /\ UNCHANGED <<payments, receipts, issued>>
                   ELSE /\ payments' = pays
                        /\ receipts' = Append(receipts,
                                           [payment_id |-> payment_id,
                                            receipt_no |-> receipt_no,
                                            pdf_path |-> pdf_path,
                                            created_by |-> Some(actor.id)])
                        /\ issued' = issued \cup
                                       {[payment_id |-> payment_id,
                                         id |-> Len(receipts) + 1,
                                         pdf_path |-> pdf_path]}
                        /\ Finish(p, [M EXCEPT !.out = "ok", !.id = in.invoice_id,
                                         !.payment_id = payment_id,
                                         !.pdf_path = pdf_path])
    /\ calls' = calls + 1
    /\ UNCHANGED <<invoices, users, config, seenKeys, returned>>

(***************************************************************************)
(* Inputs of the requests and the initial database.                        *)
(***************************************************************************)
T1 == <<"T", 1>>
K1 == <<"K", 1>>
K2 == <<"K", 2>>
RNo1 == <<"R", 1>>

NoA == <<"A">>
NoAPadded == <<"A", " ">>
NoB == <<"B">>

\* the optional `payment` dict of generate_invoice_for_student
PayDict(txn, amount, status, key) ==
    Some([provider |-> "manual", provider_txn_id |-> txn, amount |-> amount,
          status |-> status, idempotency_key |-> key])

GenArgs(nos, sids, amounts, pays) ==
    [invoice_no : nos, student_id : sids, amount : amounts, payment : pays]

WebhookArgs(sigs, ids, txns, amounts, keys) ==
    [signature_ok : sigs, invoice_id : ids, provider_txn_id : txns,
     amount : amounts, idempotency_key : keys]

ReceiptArgs(pids, rnos, actors) ==
    [payment_id : pids, receipt_no : rnos, created_by : actors]

\* fee-plan configurations: a student assigned to the only plan
\* (Tuition 1000 + Transport 500), a single plan without assignments,
\* and no plan data at all
Tuition == [fee_plan_id |-> 1, name |-> "Tuition", amount |-> 1000]
Transport == [fee_plan_id |-> 1, name |-> "Transport", amount |-> 500]

AssignedPlan ==
    [assignments |-> <<[student_id |-> 1, fee_plan_id |-> 1, invoice_id |-> None]>>,
     planComponents |-> <<Tuition, Transport>>]
SinglePlan == [assignments |-> <<>>, planComponents |-> <<Tuition, Transport>>]
NoPlan == [assignments |-> <<>>, planComponents |-> <<>>]

Clerk == [email |-> "clerk@example.com", role |-> "clerk"]
Parent == [email |-> "parent@example.com", role |-> "parent"]

InitWith(plans, userTables) ==
    /\ invoices = <<>>
    /\ payments = <<>>
    /\ receipts = <<>>
    /\ users \in userTables
    /\ students = {1}
    /\ \E c \in plans : assignments = c.assignments /\ planComponents = c.planComponents
    /\ pc = [p \in Procs |-> "idle"]
    /\ loc = [p \in Procs |-> L0]
    /\ res = [p \in Procs |-> R0]
    /\ calls = 0
    /\ uuidCtr = 0
    /\ seenKeys = {}
    /\ issued = {}
    /\ returned = {}

(***************************************************************************)
(* Spec: two requests at a time, interleaved at their commits.             *)
(***************************************************************************)
GenInputs ==
    GenArgs({NoA, NoAPadded}, {1}, {None, Some(500)},
            {None, PayDict(None, Some(700), "captured", None)})

WebhookInputs ==
    WebhookArgs({TRUE}, {Some(1)}, {Some(T1), None}, {Some(800)},
                {Some(K1), None})

ReceiptInputs == ReceiptArgs({1}, {Some(RNo1), None}, {None})

Init == InitWith({AssignedPlan}, {<<Clerk>>})

Next ==
    \E p \in Procs :
        \/ GenStart(p, GenInputs, MaxCalls)
        \/ GenInsert(p)
        \/ GenFinalize(p)
        \/ GenPay(p)
        \/ GenMark(p)
        \/ GenRender(p)
        \/ WebhookStart(p, WebhookInputs, MaxCalls)
        \/ WebhookInsert(p)
        \/ WebhookMark(p)
        \/ WebhookReceipt(p)
        \/ ReceiptStart(p, ReceiptInputs, MaxCalls)
        \/ ReceiptRender(p)

Spec == Init /\ [][Next]_vars

(***************************************************************************)
(* SeqSpec: one request at a time (each call returns before the next one   *)
(* starts), with a wider choice of arguments and one more call.            *)
(***************************************************************************)
SeqGenInputs ==
    GenArgs({NoA, NoAPadded, NoB}, {1}, {None, Some(500)},
            {None, PayDict(None, Some(700), "captured", None)})

SeqWebhookInputs ==
    WebhookArgs({TRUE}, {Some(1)}, {Some(T1), None},
                {Some(700), Some(800), Some(1500)}, {Some(K1), Some(K2)})

SeqReceiptInputs == ReceiptArgs({1}, {Some(RNo1), None}, {None})

SeqInit == InitWith({AssignedPlan}, {<<Clerk>>})

SeqNext ==
    \E p \in {1} :
        \/ GenStart(p, SeqGenInputs, MaxSeqCalls)
        \/ GenInsert(p)
        \/ GenFinalize(p)
        \/ GenPay(p)
        \/ GenMark(p)
        \/ GenRender(p)
        \/ WebhookStart(p, SeqWebhookInputs, MaxSeqCalls)
        \/ WebhookInsert(p)
        \/ WebhookMark(p)
        \/ WebhookReceipt(p)
        \/ ReceiptStart(p, SeqReceiptInputs, MaxSeqCalls)
        \/ ReceiptRender(p)

SeqSpec == SeqInit /\ [][SeqNext]_vars

(***************************************************************************)
(* GenSpec: generate_invoice_for_student alone, one call at a time, over   *)
(* the three fee-plan configurations, with an extra amount that is absent, *)
(* zero or 500 and an immediate payment that is captured or failed.        *)
(***************************************************************************)
GenOnlyInputs ==
    GenArgs({NoA, NoB}, {1}, {None, Some(0), Some(500)},
            {None, PayDict(None, Some(700), "captured", None),
             PayDict(None, Some(1500), "failed", None)})

GenOnlyInit == InitWith({AssignedPlan, SinglePlan, NoPlan}, {<<Clerk>>})

GenOnlyNext ==
    \E p \in {1} :
        \/ GenStart(p, GenOnlyInputs, MaxGenCalls)
        \/ GenInsert(p)
        \/ GenFinalize(p)
        \/ GenPay(p)
        \/ GenMark(p)
        \/ GenRender(p)

GenSpec == GenOnlyInit /\ [][GenOnlyNext]_vars

(***************************************************************************)
(* RcptSpec: one invoice without immediate payment, webhook captures of    *)
(* 700 and 800 and receipts issued for the first two payments, one call    *)
(* at a time.                                                              *)
(***************************************************************************)
RcptGenInputs == GenArgs({NoA}, {1}, {None}, {None})

RcptWebhookInputs ==
    WebhookArgs({TRUE}, {Some(1)}, {None}, {Some(700), Some(800)},
                {Some(K1), Some(K2)})

RcptReceiptInputs == ReceiptArgs({1, 2}, {None}, {None})

RcptInit == InitWith({AssignedPlan}, {<<Clerk>>})

RcptNext ==
    \E p \in {1} :
        \/ GenStart(p, RcptGenInputs, MaxRcptCalls)
        \/ GenInsert(p)
        \/ GenFinalize(p)
        \/ GenRender(p)
        \/ WebhookStart(p, RcptWebhookInputs, MaxRcptCalls)
        \/ WebhookInsert(p)
        \/ WebhookMark(p)
        \/ WebhookReceipt(p)
        \/ ReceiptStart(p, RcptReceiptInputs, MaxRcptCalls)
        \/ ReceiptRender(p)

RcptSpec == RcptInit /\ [][RcptNext]_vars

(***************************************************************************)
(* CaptureSpec: concurrent webhook captures against one invoice.  The      *)
(* initial database is the one generate_invoice_for_student(1, "A") has    *)
(* left after it returned: invoice 1, pending, amount_due 1500.            *)
(***************************************************************************)
CaptureInputs ==
    WebhookArgs({TRUE}, {Some(1)}, {None}, {Some(700), Some(800)},
                {Some(K1), Some(K2), None})

CaptureInit ==
    /\ invoices = <<NewInvoice(1, NoA, 1500)>>
    /\ payments = <<>>
    /\ receipts = <<>>
    /\ users = <<Clerk>>
    /\ students = {1}
    /\ assignments = AssignedPlan.assignments
    /\ planComponents = AssignedPlan.planComponents
    /\ pc = [p \in Procs |-> "idle"]
    /\ loc = [p \in Procs |-> L0]
    /\ res = [p \in Procs |-> R0]
    /\ calls = 0
    /\ uuidCtr = 0
    /\ seenKeys = {}
    /\ issued = {}
    /\ returned = {Returned(NoA, 1)}

CaptureNext ==
    \E p \in Procs :
        \/ WebhookStart(p, CaptureInputs, MaxCaptureCalls)
        \/ WebhookInsert(p)
        \/ WebhookMark(p)
        \/ WebhookReceipt(p)

CaptureSpec == CaptureInit /\ [][CaptureNext]_vars

(***************************************************************************)
(* VerifySpec: webhooks alone, two at a time, on the seeded invoice, with  *)
(* accepted and rejected signatures and payloads that name the invoice,    *)
(* an unknown invoice or none.                                             *)
(***************************************************************************)
VerifyInputs ==
    WebhookArgs(BOOLEAN, {Some(1), Some(2), None}, {None}, {Some(800)},
                {Some(K1), None})

VerifyNext ==
    \E p \in Procs :
        \/ WebhookStart(p, VerifyInputs, MaxVerifyCalls)
        \/ WebhookInsert(p)
        \/ WebhookMark(p)
        \/ WebhookReceipt(p)

VerifySpec == CaptureInit /\ [][VerifyNext]_vars

(***************************************************************************)
(* ManualSpec: one request at a time; invoice generation, webhooks and the *)
(* manual payment endpoint called by a clerk, by the parent account of     *)
(* the student and by an accountant.                                       *)
(***************************************************************************)
Guardian == [email |-> "parent@example.com", role |-> "parent", student_id |-> Some(1)]
Accountant == [email |-> "accountant@example.com", role |-> "accountant"]

ManualArgs(ids, amounts, callers) ==
    [invoice_id : ids, amount : amounts, user : callers]

ManualInputs == ManualArgs({1, 2}, {0, 700}, {1, 2, 3})

ManualWebhookInputs ==
    WebhookArgs({TRUE}, {Some(1)}, {None}, {Some(800)}, {Some(K1)})

ManualInit == InitWith({AssignedPlan}, {<<Clerk, Guardian, Accountant>>})

ManualNext ==
    \E p \in {1} :
        \/ GenStart(p, RcptGenInputs, MaxManualCalls)
        \/ GenInsert(p)
        \/ GenFinalize(p)
        \/ GenRender(p)
        \/ WebhookStart(p, ManualWebhookInputs, MaxManualCalls)
        \/ WebhookInsert(p)
        \/ WebhookMark(p)
        \/ WebhookReceipt(p)
        \/ create_manual_payment(p, ManualInputs, MaxManualCalls)

ManualSpec == ManualInit /\ [][ManualNext]_vars

(***************************************************************************)
(* IssuerSpec: one request at a time; invoices for an existing and for a   *)
(* missing student, immediate payments that are captured or failed, and    *)
(* create_receipt_and_render with and without an explicit actor, on a      *)
(* user table with or without a clerk.                                     *)
(***************************************************************************)
IssuerGenInputs ==
    GenArgs({NoA, NoB}, {1, 2}, {None},
            {PayDict(None, Some(700), "captured", None),
             PayDict(None, Some(700), "failed", None)})

IssuerReceiptInputs ==
    ReceiptArgs({1, 2}, {None}, {None, Some(1), Some(2), Some(9)})

IssuerInit == InitWith({AssignedPlan}, {<<Parent, Clerk>>, <<Parent>>})

IssuerNext ==
    \E p \in {1} :
        \/ GenStart(p, IssuerGenInputs, MaxIssuerCalls)
        \/ GenInsert(p)
        \/ GenFinalize(p)
        \/ GenPay(p)
        \/ GenMark(p)
        \/ GenRender(p)
        \/ ReceiptStart(p, IssuerReceiptInputs, MaxIssuerCalls)
        \/ ReceiptRender(p)

IssuerSpec == IssuerInit /\ [][IssuerNext]_vars

(***************************************************************************)
(* PlanSpec: generate_invoice_for_student alone, one call at a time, for   *)
(* student 1 over fee-plan configurations with one and with two plans:     *)
(* plan 1 (Tuition, Transport) and plan 2 (Hostel, or no component yet).   *)
(***************************************************************************)
Hostel == [fee_plan_id |-> 2, name |-> "Hostel", amount |-> 300]

\* two plans with components, nobody assigned
TwoPlans == [assignments |-> <<>>, planComponents |-> <<Tuition, Transport, Hostel>>]

\* plan 2 has no component yet and is assigned to student 2 only
OtherAssigned ==
    [assignments |-> <<[student_id |-> 2, fee_plan_id |-> 2, invoice_id |-> None]>>,
     planComponents |-> <<Tuition, Transport>>]

\* student 1 is assigned to plan 2, which has a component or none yet
AssignedSecondPlan ==
    [assignments |-> <<[student_id |-> 1, fee_plan_id |-> 2, invoice_id |-> None]>>,
     planComponents |-> <<Tuition, Transport, Hostel>>]
AssignedEmptyPlan ==
    [assignments |-> <<[student_id |-> 1, fee_plan_id |-> 2, invoice_id |-> None]>>,
     planComponents |-> <<Tuition, Transport>>]

\* an assignment row of student 2 that is linked to invoice 1
LinkedToInvoice ==
    [assignments |-> <<[student_id |-> 2, fee_plan_id |-> 1, invoice_id |-> Some(1)]>>,
     planComponents |-> <<Tuition, Transport>>]

PlanConfigs ==
    {AssignedPlan, SinglePlan, TwoPlans, OtherAssigned, AssignedSecondPlan,
     AssignedEmptyPlan, LinkedToInvoice}

PlanGenInputs == GenArgs({NoA, NoB}, {1}, {None, Some(500)}, {None})

PlanInit ==
    /\ invoices = <<>>
    /\ payments = <<>>
    /\ receipts = <<>>
    /\ users = <<Clerk>>
    /\ students = {1, 2}
    /\ \E c \in PlanConfigs :
          assignments = c.assignments /\ planComponents = c.planComponents
    /\ pc = [p \in Procs |-> "idle"]
    /\ loc = [p \in Procs |-> L0]
    /\ res = [p \in Procs |-> R0]
    /\ calls = 0
    /\ uuidCtr = 0
    /\ seenKeys = {}
    /\ issued = {}
    /\ returned = {}

PlanNext ==
    \E p \in {1} :
        \/ GenStart(p, PlanGenInputs, MaxPlanCalls)
        \/ GenInsert(p)
        \/ GenFinalize(p)
        \/ GenRender(p)

PlanSpec == PlanInit /\ [][PlanNext]_vars

(***************************************************************************)
(* AmountSpec: one request at a time; invoices with an immediate payment   *)
(* and webhooks whose amount is absent, zero or 700.                       *)
(***************************************************************************)
AmountGenInputs ==
    GenArgs({NoA}, {1}, {None},
            {None, PayDict(None, None, "captured", None),
             PayDict(None, Some(0), "captured", None),
             PayDict(None, Some(700), "captured", None)})

AmountWebhookInputs ==
    WebhookArgs({TRUE}, {Some(1)}, {None}, {None, Some(0), Some(700)}, {None})

AmountInit == InitWith({AssignedPlan}, {<<Clerk>>})

AmountNext ==
    \E p \in {1} :
        \/ GenStart(p, AmountGenInputs, MaxAmountCalls)
        \/ GenInsert(p)
        \/ GenFinalize(p)
        \/ GenPay(p)
        \/ GenMark(p)
        \/ GenRender(p)
        \/ WebhookStart(p, AmountWebhookInputs, MaxAmountCalls)
        \/ WebhookInsert(p)
        \/ WebhookMark(p)
        \/ WebhookReceipt(p)

AmountSpec == AmountInit /\ [][AmountNext]_vars

(***************************************************************************)
(* Properties.                                                             *)
(***************************************************************************)
\* sum of the amounts of the captured payments of an invoice
CapturedTotal(pays, invoice_id) ==
    LET idx == SelectIdx(pays,
                   [i \in DOMAIN pays |-> /\ pays[i].fee_invoice_id = invoice_id
                                          /\ pays[i].status = "captured"], 1)
    IN SumSeq([k \in DOMAIN idx |-> pays[idx[k]].amount])

PaymentsWithKey(key) ==
    {i \in DOMAIN payments : payments[i].idempotency_key = Some(key)}

InvoicesWithNo(invoice_no) ==
    {i \in DOMAIN invoices : invoices[i].invoice_no = invoice_no}

ReceiptsOf(payment_id) ==
    {i \in DOMAIN receipts : receipts[i].payment_id = payment_id}

\* C1: when a verified handle_webhook_mark_paid call carries an
\* idempotency_key that an earlier verified call carried, it returns
\* "ignored" and exactly one Payment row with that key exists.
C1_WebhookIdempotency ==
    \A p \in Procs :
        (res[p].op = "webhook" /\ res[p].second) =>
            /\ res[p].out = "ignored"
            /\ Cardinality(PaymentsWithKey(res[p].key)) = 1

\* C2: every generate_invoice_for_student call made in sequence for one
\* invoice_no returns the same Invoice id, the id of the only FeeInvoice row
\* with that number.
C2_SameInvoiceReturned ==
    /\ \A a \in returned :
        /\ a.id \in DOMAIN invoices
        /\ invoices[a.id].invoice_no = a.invoice_no
        /\ Cardinality(InvoicesWithNo(a.invoice_no)) = 1
    /\ \A a, b \in returned : a.invoice_no = b.invoice_no => a.id = b.id

\* a second call for an invoice_no has returned the id an earlier call returned
C2_Witness ==
    \E p \in Procs :
        /\ res[p].op = "generate" /\ res[p].out = "ok"
        /\ res[p].path = "existing" /\ res[p].second
        /\ Returned(res[p].invoice_no, res[p].id) \in returned

\* C3: when the webhook has recorded a payment and evaluated the threshold,
\* the invoice is paid if and only if the sum of its captured payments is at
\* least its amount_due.
C3_PaidIffCapturedCoversDue ==
    [][\A p \in Procs :
          (pc[p] = "W_mark" /\ pc'[p] = "W_receipt") =>
              ((invoices'[loc[p].inv].status = "paid")
                  <=> (CapturedTotal(payments', loc[p].inv)
                          >= invoices'[loc[p].inv].amount_due))]_vars

\* C4: an invoice becomes paid only when the sum of its captured payments is
\* at least its amount_due; an immediate payment smaller than the finalized
\* amount_due leaves the invoice pending.
C4_PaidOnlyWhenCovered ==
    [][\A i \in DOMAIN invoices :
          (invoices[i].status = "pending" /\ invoices'[i].status = "paid") =>
              CapturedTotal(payments', i) >= invoices'[i].amount_due]_vars

\* C5: once an invoice has a payment, the snapshot of load_invoice_context
\* has balance = total_due - paid_amount, negative on overpayment.
C5_BalanceInvariant ==
    \A i \in DOMAIN invoices :
        (\E j \in DOMAIN payments : payments[j].fee_invoice_id = i) =>
            LET ctx == load_invoice_context(invoices, payments, i)
            IN /\ ~IsNone(ctx.total_due) /\ ~IsNone(ctx.paid_amount)
               /\ ~IsNone(ctx.balance)
               /\ Val(ctx.balance) = Val(ctx.total_due) - Val(ctx.paid_amount)

\* an overpaid invoice whose snapshot has a negative balance
C5_Witness ==
    \E i \in DOMAIN invoices :
        LET ctx == load_invoice_context(invoices, payments, i)
        IN /\ ~IsNone(ctx.balance) /\ Val(ctx.balance) < 0
           /\ Cardinality({j \in DOMAIN payments : payments[j].fee_invoice_id = i}) >= 2

\* C6: a create_receipt_and_render call that succeeds for a payment returns
\* the id and pdf_path every earlier successful call for that payment
\* returned, and exactly one Receipt row exists for the payment.
C6_ReceiptReturnedAgain ==
    \A p \in Procs :
        (res[p].op = "receipt" /\ res[p].out = "ok") =>
            /\ \A r \in res[p].prior :
                r.id = res[p].id /\ r.pdf_path = res[p].pdf_path
            /\ receipts[res[p].id].payment_id = res[p].payment_id
            /\ receipts[res[p].id].pdf_path = res[p].pdf_path
            /\ Cardinality(ReceiptsOf(res[p].payment_id)) = 1

\* a second successful call for a payment whose receipt was issued before
C6_Witness ==
    \E p \in Procs :
        /\ res[p].op = "receipt" /\ res[p].out = "ok"
        /\ res[p].prior # {}

\* C7: no Payment ever has more than one Receipt row.
C7_OneReceiptPerPayment ==
    \A j \in DOMAIN payments : Cardinality(ReceiptsOf(j)) <= 1

\* C8: a generate_invoice_for_student call that loses the insert race does
\* not surface the unique violation; it goes on with, and returns, the only
\* FeeInvoice row with its invoice_no.
C8_RaceLoserGetsWinnersRow ==
    \A p \in Procs :
        /\ (res[p].op = "generate" /\ res[p].path = "raced") =>
              /\ res[p].out # "conflict"
              /\ res[p].id \in DOMAIN invoices
              /\ invoices[res[p].id].invoice_no = Strip(res[p].invoice_no)
              /\ Cardinality(InvoicesWithNo(Strip(res[p].invoice_no))) = 1
        /\ (loc[p].op = "generate" /\ loc[p].raced) =>
              /\ invoices[loc[p].inv].invoice_no = Strip(loc[p].invoice_no)
              /\ Cardinality(InvoicesWithNo(Strip(loc[p].invoice_no))) = 1

\* a call that lost the insert race has returned the invoice
C8_Witness ==
    \E p \in Procs :
        /\ res[p].op = "generate" /\ res[p].path = "raced" /\ res[p].out = "ok"
        /\ invoices[res[p].id].invoice_no = Strip(res[p].invoice_no)

\* C9: no step of a call that lost the insert race changes an invoice or
\* records a payment.
C9_RaceLoserChangesNothing ==
    [][\A p \in Procs :
          (loc[p].op = "generate" /\ loc[p].raced /\ pc'[p] # pc[p]) =>
              (invoices' = invoices /\ payments' = payments)]_vars

\* C10: a generate_invoice_for_student call made when its invoice_no is
\* already stored takes the existing-invoice path, and changes no invoice,
\* payment or receipt.
C10_ExistingInvoiceUnchanged ==
    [][\A p \in Procs :
          /\ ~loc'[p].existed
          /\ (/\ pc[p] = "idle" /\ calls' = calls + 1
              /\ res'[p].op = "generate" /\ res'[p].path = "existing") =>
                 (invoices' = invoices /\ payments' = payments
                    /\ receipts' = receipts)]_vars

\* a call with an extra amount of 500 has returned the existing invoice, whose
\* amount_due is still the 1500 of the plan
C10_Witness ==
    \E p \in Procs :
        /\ res[p].op = "generate" /\ res[p].path = "existing" /\ res[p].out = "ok"
        /\ res[p].amount = Some(500)
        /\ invoices[res[p].id].amount_due = 1500

\* receipts of a payment created by the webhook (fee_repo.create_receipt
\* leaves created_by NULL)
WebhookReceiptsOf(payment_id) ==
    {r \in ReceiptsOf(payment_id) : IsNone(receipts[r].created_by)}

C12_IgnoredReplayMutatesNothing ==
    [][\A p \in Procs :
          (\/ (pc[p] = "idle" /\ pc'[p] = "W_insert")
           \/ (pc[p] = "W_insert" /\ pc'[p] = "idle")
           \/ (/\ pc[p] = "idle" /\ pc'[p] = "idle" /\ calls' = calls + 1
               /\ res'[p].op = "webhook" /\ res'[p].out = "ignored")) =>
              (invoices' = invoices /\ payments' = payments
                 /\ receipts' = receipts)]_vars

\* a replay found by the lookup has been answered "ignored" for an invoice
\* that is still pending
C12_Witness ==
    \E p \in Procs :
        /\ res[p].op = "webhook" /\ res[p].out = "ignored" /\ res[p].path = "none"
        /\ Cardinality(PaymentsWithKey(res[p].key)) = 1
        /\ invoices[res[p].id].status = "pending"

\* C13: when generate_invoice_for_student has created an invoice, its
\* amount_due is the sum of the resolved line-item amounts plus the caller's
\* amount (0 when absent): the caller's amount alone without items, 1500
\* for Tuition 1000 + Transport 500 and no extra amount.
C13_AmountComputation ==
    \A p \in Procs :
        (res[p].op = "generate" /\ res[p].path = "created") =>
            LET inv == invoices[res[p].id]
                extra == IF IsNone(res[p].amount) THEN 0 ELSE Val(res[p].amount)
                items == ResolveItems(res[p].id, inv.student_id)
            IN /\ inv.amount_due = SumPresent(items) + extra
               /\ (planComponents = <<>> => inv.amount_due = extra)
               /\ (planComponents = <<Tuition, Transport>> =>
                      inv.amount_due = 1500 + extra)

\* an invoice created with the plan's items and an extra amount of 500
C13_Witness ==
    \E p \in Procs :
        /\ res[p].op = "generate" /\ res[p].path = "created"
        /\ res[p].amount = Some(500)
        /\ planComponents = <<Tuition, Transport>>
        /\ invoices[res[p].id].amount_due = 2000

\* C14: a receipt issued by create_receipt_and_render shows its own
\* payment's amount as amount, and as total_due, paid_amount and balance the
\* invoice-level totals at issue time: all payments of the invoice so far.
C14_ReceiptCumulativeTotals ==
    \A p \in Procs :
        (res[p].op = "receipt" /\ res[p].out = "ok") =>
            LET pay == payments[res[p].payment_id]
                inv == pay.fee_invoice_id
                shown == Val(res[p].ctx)
            IN /\ res[p].amount = Some(pay.amount)
               /\ shown.total_due = Some(invoices[inv].amount_due)
               /\ shown.paid_amount = Some(CapturedTotal(payments, inv))
               /\ shown.balance =
                      Some(invoices[inv].amount_due - CapturedTotal(payments, inv))

\* after 700 then 800 on an invoice of 1500, the receipt of the second
\* payment shows amount 800, paid_amount 1500 and balance 0
C14_Witness ==
    \E p \in Procs :
        /\ res[p].op = "receipt" /\ res[p].out = "ok" /\ res[p].payment_id = 2
        /\ payments[1].amount = 700 /\ payments[2].amount = 800
        /\ res[p].amount = Some(800)
        /\ Val(res[p].ctx).total_due = Some(1500)
        /\ Val(res[p].ctx).paid_amount = Some(1500)
        /\ Val(res[p].ctx).balance = Some(0)

\* C15: the context the webhook hands to the receipt renderer has the
\* total_due, paid_amount and balance that load_invoice_context returns for
\* the payment's invoice at that moment.
C15_WebhookReceiptTotalsParity ==
    \A p \in Procs :
        (/\ res[p].op = "webhook" /\ res[p].out \in {"ok", "render_failed"}
         /\ pc[p] = "idle") =>
            LET ctx == load_invoice_context(invoices, payments, res[p].id)
                shown == Val(res[p].ctx)
            IN /\ shown.total_due = ctx.total_due
               /\ shown.paid_amount = ctx.paid_amount
               /\ shown.balance = ctx.balance

\* C16: the paid_amount of the snapshot is the sum of the captured payments
\* of the invoice, and an invoice without a captured payment is not paid.
C16_OnlyCapturedCounts ==
    \A i \in DOMAIN invoices :
        LET ctx == load_invoice_context(invoices, payments, i)
        IN /\ (~IsNone(ctx.paid_amount) =>
                  Val(ctx.paid_amount) = CapturedTotal(payments, i))
           /\ (invoices[i].status = "paid" => CapturedTotal(payments, i) > 0)

\* C17: for an invoice without payments load_invoice_context returns
\* paid_amount = 0 and balance = total_due.
C17_NoPaymentSnapshot ==
    \A p \in Procs :
        (/\ res[p].op = "generate" /\ res[p].out = "ok"
         /\ PaymentAmounts(payments, res[p].id) = <<>>) =>
            /\ Val(res[p].ctx).paid_amount = Some(0)
            /\ Val(res[p].ctx).balance = Val(res[p].ctx).total_due

\* C18: once all concurrent webhook captures against the invoice have
\* returned, the invoice is paid if and only if the captured amounts sum to
\* at least amount_due, and the balance is amount_due minus that sum,
\* whatever the interleaving was.
C18_OrderIndependentCaptures ==
    (\A p \in Procs : pc[p] = "idle") =>
        \A i \in DOMAIN invoices :
            LET ctx == load_invoice_context(invoices, payments, i)
                total == CapturedTotal(payments, i)
            IN /\ (invoices[i].status = "paid") <=> (total >= invoices[i].amount_due)
               /\ (PaymentAmounts(payments, i) # <<>> =>
                      ctx.balance = Some(invoices[i].amount_due - total))

\* both requests have captured a payment, 700 and 800 in either order, and
\* the invoice of 1500 is paid with balance 0
C18_Witness ==
    /\ \A p \in Procs : pc[p] = "idle" /\ res[p].op = "webhook" /\ res[p].out = "ok"
    /\ Len(payments) = 2 /\ payments[1].amount = 800 /\ payments[2].amount = 700
    /\ invoices[1].status = "paid"
    /\ load_invoice_context(invoices, payments, 1).balance = Some(0)

\* C19: while generate_invoice_for_student has inserted an invoice with the
\* placeholder amount_due and has not finalized it, no other request holds
\* that invoice.
C19_PlaceholderNotObserved ==
    \A p, q \in Procs :
        (/\ p # q
         /\ pc[p] = "G_finalize" /\ ~loc[p].raced
         /\ invoices[loc[p].inv].amount_due = 0) =>
            ~(pc[q] # "idle" /\ loc[q].inv = loc[p].inv)

\* C20: when rendering fails in generate_invoice_for_student no Invoice row
\* created by the call remains, and when it fails in
\* handle_webhook_mark_paid no Payment row created by the call remains.
C20_RenderFailureRollsBack ==
    \A p \in Procs :
        /\ (/\ res[p].op = "generate" /\ res[p].out = "render_failed"
            /\ res[p].path = "created") =>
               InvoicesWithNo(Strip(res[p].invoice_no)) = {}
        /\ (res[p].op = "webhook" /\ res[p].out = "render_failed") =>
               PaymentsWithKey(res[p].key) = {}

\* C21: when rendering fails in a create_receipt_and_render call for a
\* payment that had no receipt, the call ends in the render_failed error and
\* persists no Receipt row, so the receipts it has stored are those it
\* rendered.
C21_ReceiptRenderFailureRollsBack ==
    [][\A p \in Procs :
          (/\ pc[p] = "R_render" /\ loc[p].rid = 0
           /\ res'[p].out = "render_failed") =>
              (/\ pc'[p] = "idle"
               /\ receipts' = receipts
               /\ issued' = issued)]_vars

\* a call for a payment without a receipt has failed in the renderer
C21_Witness ==
    \E p \in Procs :
        /\ res[p].op = "receipt" /\ res[p].out = "render_failed"
        /\ res[p].prior = {}
        /\ ReceiptsOf(res[p].payment_id) = {}

C23_ManualPaymentPersists ==
    \A p \in Procs :
        (/\ res[p].op = "manual"
         /\ res[p].out \notin {"not_found", "forbidden", "invalid_amount"}
         /\ res[p].path # "render_failed") =>
            /\ res[p].out = "ok"
            /\ res[p].payment_id \in DOMAIN payments
            /\ payments[res[p].payment_id].fee_invoice_id = res[p].id
            /\ Cardinality(ReceiptsOf(res[p].payment_id)) = 1

\* C24: a verified handle_webhook_mark_paid call for an existing invoice
\* whose idempotency key is on no Payment row when the call looks it up (and
\* whose receipt renders) returns status ok, and one Payment with status
\* captured for the invoice carries the key and has exactly one Receipt.
C24_WebhookCreatesPaymentAndReceipt ==
    \A p \in Procs :
        (/\ res[p].op = "webhook" /\ res[p].signed
         /\ res[p].out \notin {"verification_failed", "invoice_not_found",
                               "render_failed"}
         /\ ~(res[p].out = "ignored" /\ res[p].path = "none")) =>
            /\ res[p].out = "ok"
            /\ Cardinality(PaymentsWithKey(res[p].key)) = 1
            /\ \A i \in PaymentsWithKey(res[p].key) :
                  /\ payments[i].status = "captured"
                  /\ payments[i].fee_invoice_id = res[p].id
                  /\ Cardinality(ReceiptsOf(i)) = 1

ValidationErrors ==
    {"payment_not_found", "invoice_not_found", "student_not_found", "invalid_state"}

\* C25: a create_receipt_and_render call that passes the validation chain
\* and is given an explicit created_by id that does not resolve to a user
\* with role admin or clerk (another role, or no such user) is rejected as
\* forbidden.
C25_ExplicitActorMustBeStaff ==
    \A p \in Procs :
        (/\ res[p].op = "receipt"
         /\ res[p].out \notin ValidationErrors
         /\ ~IsNone(res[p].given)
         /\ ~(/\ Val(res[p].given) \in DOMAIN users
              /\ users[Val(res[p].given)].role \in {"admin", "clerk"})) =>
            res[p].out = "forbidden"

\* C26: every Receipt row, whether stored by create_receipt_and_render or
\* by the webhook, has a created_by that is not null and is the id of a user
\* with role admin or clerk.
C26_ReceiptActorNeverNull ==
    \A i \in DOMAIN receipts :
        /\ ~IsNone(receipts[i].created_by)
        /\ Val(receipts[i].created_by) \in DOMAIN users
        /\ users[Val(receipts[i].created_by)].role \in {"admin", "clerk"}

\* C27: no step of a create_receipt_and_render call, whether the call
\* succeeds or fails, changes a field of an Invoice row or of a Payment row.
C27_IssuerWritesOnlyReceipts ==
    [][\A p \in Procs :
          (\/ (pc[p] = "idle" /\ pc'[p] = "R_render")
           \/ (pc[p] = "R_render" /\ pc'[p] = "idle")
           \/ (/\ pc[p] = "idle" /\ pc'[p] = "idle" /\ calls' = calls + 1
               /\ res'[p].op = "receipt")) =>
              (invoices' = invoices /\ payments' = payments)]_vars

\* a call has stored the receipt of a payment of an invoice
C27_Witness ==
    \E p \in Procs :
        /\ res[p].op = "receipt" /\ res[p].out = "ok"
        /\ res[p].id \in DOMAIN receipts
        /\ receipts[res[p].id].payment_id \in DOMAIN payments
        /\ ~IsNone(receipts[res[p].id].created_by)

\* C28: create_receipt_and_render answers with the first failed check of the
\* chain payment exists, its invoice exists, the invoice's student exists,
\* the payment's status is paid, posted or captured (not-found for the first
\* three, conflict for the status), and a call that fails a check leaves the
\* payment without a Receipt row.
C28_ValidationChain ==
    \A p \in Procs :
        res[p].op = "receipt" =>
            LET pid == res[p].payment_id
                has_payment == pid \in DOMAIN payments
                has_invoice == has_payment /\ payments[pid].fee_invoice_id \in DOMAIN invoices
                has_student == has_invoice /\
                    invoices[payments[pid].fee_invoice_id].student_id \in students
                has_status == has_student /\
                    payments[pid].status \in {"paid", "posted", "captured"}
            IN /\ ~has_payment => res[p].out = "payment_not_found"
               /\ (has_payment /\ ~has_invoice) => res[p].out = "invoice_not_found"
               /\ (has_invoice /\ ~has_student) => res[p].out = "student_not_found"
               /\ (has_student /\ ~has_status) => res[p].out = "invalid_state"
               /\ has_status => res[p].out \notin ValidationErrors
               /\ res[p].out \in ValidationErrors => ReceiptsOf(pid) = {}

\* a call for a failed payment of an invoice whose student does not exist
\* has been answered with the student's not-found error
C28_Witness ==
    \E p \in Procs :
        /\ res[p].op = "receipt" /\ res[p].out = "student_not_found"
        /\ payments[res[p].payment_id].status = "failed"

\* fee plans that rows of fee_plan_component and fee_assignment refer to
ReferencedPlans ==
    {planComponents[i].fee_plan_id : i \in DOMAIN planComponents}
        \cup {assignments[i].fee_plan_id : i \in DOMAIN assignments}

AssignmentsOf(student_id) ==
    {i \in DOMAIN assignments : assignments[i].student_id = student_id}

\* C29: the single-plan fallback is used only when exactly one fee plan
\* exists: when more than one fee plan exists and the invoice's student has
\* no assignment, the invoice is generated without line items.
C29_FallbackDeclinesToGuess ==
    \A p \in Procs :
        (/\ res[p].op = "generate" /\ res[p].id # 0
         /\ AssignmentsOf(invoices[res[p].id].student_id) = {}
         /\ Cardinality(ReferencedPlans) > 1) =>
            /\ ResolveItems(res[p].id, invoices[res[p].id].student_id) = <<>>
            /\ IsNone(Val(res[p].ctx).items_total)

\* C30: the single-plan fallback contributes line items only for a student
\* without FeeAssignment: every line item of an invoice of an assigned
\* student is a component of a plan the student is assigned to.
C30_FallbackOnlyForUnassigned ==
    \A p \in Procs :
        (/\ res[p].op = "generate" /\ res[p].id # 0
         /\ AssignmentsOf(invoices[res[p].id].student_id) # {}) =>
            LET sid == invoices[res[p].id].student_id
                items == ResolveItems(res[p].id, sid)
            IN \A k \in DOMAIN items :
                  \E a \in AssignmentsOf(sid), j \in DOMAIN planComponents :
                      /\ planComponents[j].fee_plan_id = assignments[a].fee_plan_id
                      /\ items[k].id = j

\* C31: the items list of load_invoice_context is empty or holds at least
\* one item with a present amount, for every invoice and whichever
\* resolution step produced the items.
C31_NoMisleadingItems ==
    \A i \in DOMAIN invoices :
        LET items == load_invoice_context(invoices, payments, i).items
        IN items = <<>> \/ \E k \in DOMAIN items : ~IsNone(items[k].amount)

\* a generated invoice whose only candidate items are assignment rows
\* without amounts, which the normalisation has dropped
C31_Witness ==
    \E p \in Procs :
        /\ res[p].op = "generate" /\ res[p].id # 0
        /\ AssignmentItems(res[p].id, invoices[res[p].id].student_id) # <<>>
        /\ AssignmentsOf(invoices[res[p].id].student_id) = {}
        /\ load_invoice_context(invoices, payments, res[p].id).items = <<>>

\* C32: in the snapshot of a generated invoice items_total is the sum of the
\* resolved line-item amounts, and the invoice's settled amount_due when no
\* items resolve.
C32_ItemsTotalFallback ==
    \A p \in Procs :
        (res[p].op = "generate" /\ res[p].id # 0) =>
            LET ctx == load_invoice_context(invoices, payments, res[p].id)
            IN IF ctx.items # <<>>
               THEN ctx.items_total =
                        Some(SumSeq([k \in DOMAIN ctx.items |-> Val(ctx.items[k].amount)]))
               ELSE ctx.items_total = Some(invoices[res[p].id].amount_due)

\* C33: in the snapshot of load_invoice_context total_due equals the
\* invoice's amount_due whenever amount_due is present, the value 0
\* included; items_total is used only when amount_due is absent.
C33_TotalDueRule ==
    \A i \in DOMAIN invoices :
        LET ctx == load_invoice_context(invoices, payments, i)
        IN /\ ~IsNone(ctx.amount_due) => ctx.total_due = Some(invoices[i].amount_due)
           /\ IsNone(ctx.amount_due) => ctx.total_due = ctx.items_total

\* an invoice with amount_due 0 whose items sum to 1500
C33_Witness ==
    \E i \in DOMAIN invoices :
        /\ invoices[i].amount_due = 0
        /\ load_invoice_context(invoices, payments, i).items_total = Some(1500)
        /\ load_invoice_context(invoices, payments, i).total_due = Some(0)

\* C34: the pdf_path of every Receipt is the receipts directory joined with
\* its receipt_no, and while a create_receipt_and_render call is rendering,
\* the receipt it renders is a row, with that path, that other
\* transactions can read.
C34_ReceiptPathVisibleEarly ==
    /\ \A i \in DOMAIN receipts :
          receipts[i].pdf_path = _compute_pdf_path(receipts[i].receipt_no)
    /\ \A p \in Procs :
          pc[p] = "R_render" =>
              \E i \in DOMAIN receipts :
                  /\ receipts[i].receipt_no = loc[p].receipt_no
                  /\ receipts[i].payment_id = loc[p].payment_id
                  /\ receipts[i].pdf_path = _compute_pdf_path(loc[p].receipt_no)

\* C35: generate_invoice_for_student for a new invoice inserts the invoice
\* with amount_due 0, then finalizes amount_due from the resolved items and
\* the extra amount, then records the optional immediate payment, then
\* evaluates the paid threshold, and renders last; the snapshot handed to the
\* renderer has total_due equal to the finalized amount_due and a
\* paid_amount that includes the immediate payment.
C35_GenerateSequencing ==
    [][\A p \in Procs :
          /\ (pc[p] = "G_insert" /\ pc'[p] = "G_finalize") =>
                (/\ invoices' = Append(invoices,
                                    NewInvoice(loc[p].student_id,
                                               Strip(loc[p].invoice_no), 0))
                 /\ loc'[p].inv = Len(invoices')
                 /\ payments' = payments)
          /\ (pc[p] = "G_finalize" /\ pc'[p] # pc[p]) =>
                (/\ pc'[p] = IF IsNone(loc[p].payment) THEN "G_render" ELSE "G_pay"
                 /\ invoices'[loc[p].inv].amount_due =
                        DecimalOr(_sum_amounts(ResolveItems(loc[p].inv,
                                                   loc[p].student_id)), 0)
                            + DecimalOr(loc[p].amount, 0)
                 /\ loc'[p].due = invoices'[loc[p].inv].amount_due
                 /\ payments' = payments)
          /\ (pc[p] = "G_pay" /\ pc'[p] # pc[p]) =>
                (/\ pc'[p] \in {"G_mark", "G_render"}
                 /\ invoices' = invoices
                 /\ pc'[p] = "G_mark" =>
                       (/\ Len(payments') = Len(payments) + 1
                        /\ loc'[p].payment_id = Len(payments')
                        /\ payments'[Len(payments')].fee_invoice_id = loc[p].inv))
          /\ (pc[p] = "G_mark" /\ pc'[p] # pc[p]) =>
                (/\ pc'[p] = "G_render"
                 /\ payments' = payments
                 /\ invoices'[loc[p].inv].amount_due = loc[p].due)
          /\ (pc[p] = "G_render" /\ pc'[p] # pc[p]) =>
                (/\ pc'[p] = "idle"
                 /\ invoices' = invoices /\ payments' = payments
                 /\ Val(res'[p].ctx).total_due = Some(loc[p].due)
                 /\ invoices[loc[p].inv].amount_due = loc[p].due
                 /\ loc[p].payment_id # 0 =>
                       Val(res'[p].ctx).paid_amount =
                           Some(_paid_total_for_invoice(payments, loc[p].inv)))]_vars

\* a call has created an invoice of 1500 + 500 with an immediate payment of
\* 700 and handed 2000 and 700 to the renderer
C35_Witness ==
    \E p \in Procs :
        /\ res[p].op = "generate" /\ res[p].path = "created"
        /\ res[p].amount = Some(500)
        /\ Val(res[p].ctx).total_due = Some(2000)
        /\ Val(res[p].ctx).paid_amount = Some(700)

\* C36: a verified handle_webhook_mark_paid call whose payload has no
\* invoice_id, or names an invoice that does not exist, ends in an error
\* and leaves the Invoice, Payment and Receipt tables unchanged; a call that
\* goes on works on the invoice its payload names.
C36_MissingInvoiceNoPartialState ==
    [][\A p \in Procs :
          /\ (/\ pc[p] = "idle" /\ res'[p] # res[p]
              /\ res'[p].op = "webhook" /\ res'[p].signed
              /\ (\/ IsNone(res'[p].raw_id)
                  \/ Val(res'[p].raw_id) \notin DOMAIN invoices)) =>
                 (/\ res'[p].out = "invoice_not_found"
                  /\ invoices' = invoices
                  /\ payments' = payments
                  /\ receipts' = receipts)
          /\ pc'[p] \in {"W_insert", "W_mark", "W_receipt"} =>
                 (/\ loc'[p].raw_id = Some(loc'[p].inv)
                  /\ loc'[p].inv \in DOMAIN invoices)]_vars

\* a verified call that names the unknown invoice 2 has been answered with
\* the error while invoice 1 had a payment
C36_Witness ==
    \E p \in Procs :
        /\ res[p].op = "webhook" /\ res[p].out = "invoice_not_found"
        /\ res[p].signed /\ res[p].raw_id = Some(2)
        /\ payments # <<>>

\* C37: handle_webhook_mark_paid returns status "ignored" only when a
\* Payment with the call's effective idempotency_key exists; a call with a
\* fresh key is never reported as ignored, even when it reuses the
\* (provider, provider_txn_id) of an earlier payment.
C37_IgnoredOnlyForReplay ==
    \A p \in Procs :
        (res[p].op = "webhook" /\ res[p].out = "ignored") =>
            PaymentsWithKey(res[p].key) # {}

\* C38: whenever a webhook payload or an immediate_payment dict supplies an
\* amount, the value 0 included, the Payment row created has exactly that
\* amount; the invoice's amount_due is recorded only when the amount field
\* is absent.
C38_RecordedAmountIsSupplied ==
    [][\A p \in Procs :
          (/\ pc[p] \in {"W_insert", "G_pay"}
           /\ Len(payments') = Len(payments) + 1) =>
              LET supplied == IF pc[p] = "W_insert" THEN loc[p].raw_amount
                              ELSE Val(loc[p].payment).amount
                  row == payments'[Len(payments')]
              IN row.amount = IF IsNone(supplied)
                              THEN invoices[loc[p].inv].amount_due
                              ELSE Val(supplied)]_vars

\* C39: once an invoice's status is paid no step sets it back to pending,
\* and no step changes its amount_due so that the sum of its captured
\* payments, which covered amount_due before, falls below amount_due while
\* the status stays paid.
C39_PaidAbsorbingAndSound ==
    [][\A i \in DOMAIN invoices :
          invoices[i].status = "paid" =>
              /\ invoices'[i].status = "paid"
              /\ CapturedTotal(payments, i) >= invoices[i].amount_due =>
                     CapturedTotal(payments', i) >= invoices'[i].amount_due]_vars

=============================================================================
